---- MODULE Spec2Model ----
(***************************************************************************)
(* Model of nlp_architect/utils/embedding.py: the text embedding parser    *)
(* (load_word_embeddings), the embedding matrix builder                    *)
(* (get_embedding_matrix) and the matrix filler (fill_embedding_mat).      *)
(*                                                                         *)
(* Strings are sequences of one-character strings, so that str.split,      *)
(* str.lower, line[0] and the string-to-float conversion are computed      *)
(* character by character.  A Python optional is a sequence of length at   *)
(* most one: None is << >> and a present value x is << x >>.  A dict is a   *)
(* function whose DOMAIN is its key set.                                   *)
(***************************************************************************)
EXTENDS Integers, Sequences, FiniteSets, TLC

VARIABLES
    lw_file,        \* load_word_embeddings: the lines of the file, in order
    lw_vocab,       \* load_word_embeddings: the vocab argument (None or a collection)
    lw_pos,         \* index of the next line the for loop reads
    word_vectors,   \* the dict being built
    size,           \* the detected size (None until first set)
    lw_pc,          \* "idle", "loop", "done" (returned) or "ValueError" (raised)
    gm_embeddings,  \* get_embedding_matrix: the embeddings dict
    gm_vocab,       \* get_embedding_matrix: vocab.vocab, token -> id
    gm_size,        \* get_embedding_matrix: the embedding_size argument
    gm_lower,       \* get_embedding_matrix: the lowercase_only argument
    gm_out,         \* get_embedding_matrix: the outcome of the call
    gm_pc,          \* "idle", "call" or "done"
    fe_src_mat,     \* fill_embedding_mat: src_mat, a sequence of rows of ids
    fe_src_lex,     \* fill_embedding_mat: src_lex, id -> token
    fe_emb_lex,     \* fill_embedding_mat: emb_lex, token -> vector
    fe_emb_size,    \* fill_embedding_mat: emb_size
    fe_out,         \* fill_embedding_mat: the returned tensor
    fe_pc           \* "idle", "call" or "done"

lw_vars == <<lw_file, lw_vocab, lw_pos, word_vectors, size, lw_pc>>
gm_vars == <<gm_embeddings, gm_vocab, gm_size, gm_lower, gm_out, gm_pc>>
fe_vars == <<fe_src_mat, fe_src_lex, fe_emb_lex, fe_emb_size, fe_out, fe_pc>>
vars == <<lw_vars, gm_vars, fe_vars>>

----------------------------------------------------------------------------
(* Python values *)

None == << >>
Some(x) == << x >>

\* dict.get(key): an optional
DictGet(d, k) == IF k \in DOMAIN d THEN Some(d[k]) ELSE None

\* d[key] = value
DictPut(d, k, v) == [x \in DOMAIN d \cup {k} |-> IF x = k THEN v ELSE d[x]]

EmptyDict == [x \in {} |-> 0]

----------------------------------------------------------------------------
(* Characters and strings *)

\* the whitespace characters of the files of the model
Whitespace == {" ", "\t", "\n"}
Digits == {"0", "1", "2", "3", "4", "5", "6", "7", "8", "9"}

DigitVal(c) ==
    CASE c = "0" -> 0 [] c = "1" -> 1 [] c = "2" -> 2 [] c = "3" -> 3
      [] c = "4" -> 4 [] c = "5" -> 5 [] c = "6" -> 6 [] c = "7" -> 7
      [] c = "8" -> 8 [] c = "9" -> 9

\* str.lower on one character: the upper-case letters of the tokens of the model
LowerChar(c) ==
    CASE c = "A" -> "a" [] c = "B" -> "b" [] c = "C" -> "c" [] c = "D" -> "d"
      [] c = "G" -> "g" [] c = "N" -> "n" [] c = "O" -> "o" [] c = "T" -> "t"
      [] OTHER -> c

\* str.lower
Lower(s) == [i \in 1..Len(s) |-> LowerChar(s[i])]

\* str.split() with no separator: maximal runs of non-whitespace characters
RECURSIVE SplitFrom(_, _, _, _)
SplitFrom(line, i, cur, acc) ==
    IF i > Len(line)
    THEN IF cur = << >> THEN acc ELSE Append(acc, cur)
    ELSE IF line[i] \in Whitespace
         THEN SplitFrom(line, i + 1, << >>, IF cur = << >> THEN acc ELSE Append(acc, cur))
         ELSE SplitFrom(line, i + 1, Append(cur, line[i]), acc)

Split(line) == SplitFrom(line, 1, << >>, << >>)

----------------------------------------------------------------------------
(* String to float32.  The fields of the files of the model are made of    *)
(* the letters a and b, the digits and ".": such a field is a number        *)
(* exactly when it is made of digits with at most one "." and at least one *)
(* digit.  The number is kept as << m, f >>, meaning m / 10^f, with the     *)
(* trailing zeros of the fraction removed, so that "1", "1.0" and "01" are *)
(* the same number; the fields have fewer than 7 significant digits, where *)
(* float32 keeps distinct decimals distinct.                               *)

RECURSIVE Normalise(_, _)
Normalise(m, f) ==
    IF f > 0 /\ m % 10 = 0 THEN Normalise(m \div 10, f - 1) ELSE << m, f >>

RECURSIVE ScanFloat(_, _, _, _, _, _)
ScanFloat(s, i, m, f, dot, nd) ==
    IF i > Len(s)
    THEN IF nd = 0 THEN None ELSE Some(Normalise(m, f))
    ELSE IF s[i] \in Digits
         THEN ScanFloat(s, i + 1, 10 * m + DigitVal(s[i]), IF dot THEN f + 1 ELSE f, dot, nd + 1)
         ELSE IF s[i] = "." /\ ~dot
              THEN ScanFloat(s, i + 1, m, f, TRUE, nd)
              ELSE None

ParseFloat(s) == ScanFloat(s, 1, 0, 0, FALSE, 0)

\* np.asarray(fields, dtype="float32"): None stands for the ValueError raised
\* when some field is not a number
AsArray(fields) ==
    IF \E i \in 1..Len(fields) : ParseFloat(fields[i]) = None
    THEN None
    ELSE Some([i \in 1..Len(fields) |-> ParseFloat(fields[i])[1]])

----------------------------------------------------------------------------
(* load_word_embeddings *)

MinFields == 5

SpaceKey == << " " >>

\* line[0] == " "
IsSpaceLine_FirstField(line) == Split(line)[1] = SpaceKey
IsSpaceLine(line) == line[1] = " "

\* vocab is None or line_fields[0] in vocab
InVocab_FilterIgnored(v, tok) == TRUE
InVocab(v, tok) == IF v = None THEN TRUE ELSE tok \in v[1]

\* if size is None: size = len(line_fields[1:])
NewSize_Overwrite(sz, fields) == Some(Len(Tail(fields)))
NewSize(sz, fields) == IF sz = None THEN Some(Len(Tail(fields))) ELSE sz

\* if len(line_fields) < 5: continue
TooShort(fields) == Len(fields) < MinFields

CurLine == lw_file[lw_pos]
CurFields == Split(CurLine)

InLoop == lw_pc = "loop" /\ lw_pos <= Len(lw_file)

LoadSkipShort ==
    /\ InLoop
    /\ TooShort(CurFields)
    /\ lw_pos' = lw_pos + 1
    /\ UNCHANGED <<lw_file, lw_vocab, word_vectors, size, lw_pc>>

LoadStoreSpace ==
    /\ InLoop
    /\ ~TooShort(CurFields)
    /\ IsSpaceLine(CurLine)
    /\ AsArray(CurFields) # None
    /\ word_vectors' = DictPut(word_vectors, SpaceKey, AsArray(CurFields)[1])
    /\ lw_pos' = lw_pos + 1
    /\ UNCHANGED <<lw_file, lw_vocab, size, lw_pc>>

LoadStoreToken ==
    /\ InLoop
    /\ ~TooShort(CurFields)
    /\ ~IsSpaceLine(CurLine)
    /\ InVocab(lw_vocab, CurFields[1])
    /\ AsArray(Tail(CurFields)) # None
    /\ word_vectors' = DictPut(word_vectors, CurFields[1], AsArray(Tail(CurFields))[1])
    /\ size' = NewSize(size, CurFields)
    /\ lw_pos' = lw_pos + 1
    /\ UNCHANGED <<lw_file, lw_vocab, lw_pc>>

LoadSkipFiltered ==
    /\ InLoop
    /\ ~TooShort(CurFields)
    /\ ~IsSpaceLine(CurLine)
    /\ ~InVocab(lw_vocab, CurFields[1])
    /\ lw_pos' = lw_pos + 1
    /\ UNCHANGED <<lw_file, lw_vocab, word_vectors, size, lw_pc>>

\* a field that is not a number: np.asarray raises and the call returns nothing
LoadRaise ==
    /\ InLoop
    /\ ~TooShort(CurFields)
    /\ \/ IsSpaceLine(CurLine) /\ AsArray(CurFields) = None
       \/ /\ ~IsSpaceLine(CurLine)
          /\ InVocab(lw_vocab, CurFields[1])
          /\ AsArray(Tail(CurFields)) = None
    /\ lw_pc' = "ValueError"
    /\ UNCHANGED <<lw_file, lw_vocab, lw_pos, word_vectors, size>>

\* return word_vectors, size
LoadReturn ==
    /\ lw_pc = "loop"
    /\ lw_pos > Len(lw_file)
    /\ lw_pc' = "done"
    /\ UNCHANGED <<lw_file, lw_vocab, lw_pos, word_vectors, size>>

----------------------------------------------------------------------------
(* Inputs of load_word_embeddings *)

MaxLines == 3

Ch(c) == << c >>
a == Ch("a")
b == Ch("b")
n1 == Ch("1")
n2 == Ch("2")
n3 == Ch("3")
n4 == Ch("4")
n5 == Ch("5")
n1p0 == << "1", ".", "0" >>

RECURSIVE JoinFields(_)
JoinFields(fields) ==
    IF fields = << >> THEN << >>
    ELSE IF Len(fields) = 1 THEN fields[1]
    ELSE fields[1] \o << " " >> \o JoinFields(Tail(fields))

\* a line of the file as the for loop yields it: the text and its newline
MkLine(lead, fields) == lead \o JoinFields(fields) \o << "\n" >>

LineSet ==
    { MkLine(<< >>, << a, n1, n2, n3, n4 >>),          \* "a 1 2 3 4"
      MkLine(<< >>, << a, n2, n2, n2, n2, n2 >>),      \* "a 2 2 2 2 2"
      MkLine(<< >>, << b, n1p0, n2, n3, n4 >>),        \* "b 1.0 2 3 4"
      MkLine(<< "\t" >>, << b, n4, n3, n2, n1, n1 >>), \* "\tb 4 3 2 1 1"
      MkLine(<< >>, << a, n1, n2, n3 >>),              \* "a 1 2 3"  (4 fields)
      MkLine(<< >>, << n2, n4 >>),                     \* "2 4"      (a header)
      MkLine(<< " " >>, << n1, n2, n3, n4, n5 >>),     \* " 1 2 3 4 5"
      MkLine(<< " ", " " >>, << n5, n4, n3, n2, n1, n1 >>),  \* "  5 4 3 2 1 1"
      MkLine(<< " " >>, << n1, n2, n3 >>),             \* " 1 2 3"   (3 fields)
      MkLine(<< >>, << b, n1, a, n3, n4 >>),           \* "b 1 a 3 4" (not a number)
      MkLine(<< " " >>, << a, n1, n2, n3, n4 >>)       \* " a 1 2 3 4" (not a number)
    }

RECURSIVE SeqsUpTo(_, _)
SeqsUpTo(S, n) ==
    IF n = 0 THEN { << >> }
    ELSE LET shorter == SeqsUpTo(S, n - 1)
         IN  shorter \cup { Append(s, x) : s \in { t \in shorter : Len(t) = n - 1 }, x \in S }

VocabSet == { None, Some({}), Some({b}) }

LwIdle ==
    /\ lw_file = << >>
    /\ lw_vocab = None
    /\ lw_pos = 0
    /\ word_vectors = EmptyDict
    /\ size = None
    /\ lw_pc = "idle"

GmIdle ==
    /\ gm_embeddings = EmptyDict
    /\ gm_vocab = EmptyDict
    /\ gm_size = None
    /\ gm_lower = FALSE
    /\ gm_out = [status |-> "none", mat |-> << >>]
    /\ gm_pc = "idle"

FeIdle ==
    /\ fe_src_mat = << >>
    /\ fe_src_lex = EmptyDict
    /\ fe_emb_lex = EmptyDict
    /\ fe_emb_size = 0
    /\ fe_out = << >>
    /\ fe_pc = "idle"

InitLoad ==
    /\ lw_file \in SeqsUpTo(LineSet, MaxLines)
    /\ lw_vocab \in VocabSet
    /\ lw_pos = 1
    /\ word_vectors = EmptyDict
    /\ size = None
    /\ lw_pc = "loop"
    /\ GmIdle
    /\ FeIdle

NextLoad ==
    \/ LoadSkipShort /\ UNCHANGED <<gm_vars, fe_vars>>
    \/ LoadStoreSpace /\ UNCHANGED <<gm_vars, fe_vars>>
    \/ LoadStoreToken /\ UNCHANGED <<gm_vars, fe_vars>>
    \/ LoadSkipFiltered /\ UNCHANGED <<gm_vars, fe_vars>>
    \/ LoadRaise /\ UNCHANGED <<gm_vars, fe_vars>>
    \/ LoadReturn /\ UNCHANGED <<gm_vars, fe_vars>>

SpecLoad == InitLoad /\ [][NextLoad]_vars

----------------------------------------------------------------------------
(* Properties of load_word_embeddings.  They are stated on the file and    *)
(* the vocab argument alone, by line index.                                *)

Returned == lw_pc = "done"

FieldsOf(i) == Split(lw_file[i])
FirstOf(i) == FieldsOf(i)[1]
LongLines(n) == { i \in 1..n : Len(FieldsOf(i)) >= 5 }
Allowed(tok) == IF lw_vocab = None THEN TRUE ELSE tok \in lw_vocab[1]

\* lines with at least 5 fields whose first field passes the filter
QualLines(n) == { i \in LongLines(n) : Allowed(FirstOf(i)) }
\* ... that do not begin with a space character
TokenLines(n) == { i \in QualLines(n) : lw_file[i][1] # " " }
\* lines with at least 5 fields that begin with a space character
SpaceLines(n) == { i \in LongLines(n) : lw_file[i][1] = " " }

MaxOf(S) == CHOOSE x \in S : \A y \in S : y <= x
MinOf(S) == CHOOSE x \in S : \A y \in S : x <= y

\* the fields k..end of line i as numbers
NumbersFrom(i, k) ==
    [j \in 1..(Len(FieldsOf(i)) - k + 1) |-> ParseFloat(FieldsOf(i)[j + k - 1])[1]]

Tokens(S) == { FirstOf(i) : i \in S }
LastWith(S, tok) == MaxOf({ i \in S : FirstOf(i) = tok })

\* C1 as stated: besides the " " entry, the returned table holds exactly the
\* first fields of the lines with at least 5 fields that pass the filter, each
\* mapped to the remaining fields of such a line.
C1_Original ==
    Returned =>
        /\ DOMAIN word_vectors \ {SpaceKey} = Tokens(QualLines(Len(lw_file)))
        /\ \A tok \in DOMAIN word_vectors \ {SpaceKey} :
              \E i \in QualLines(Len(lw_file)) :
                  FirstOf(i) = tok /\ word_vectors[tok] = NumbersFrom(i, 2)

\* C1 amended: besides the " " entry, the returned table holds exactly the
\* first fields of the lines that have at least 5 fields, do not begin with a
\* space character and pass the filter (any token when there is no filter);
\* each maps to the remaining fields, as numbers, of the last such line that
\* carries it; a line with fewer than 5 fields contributes nothing.
C1_Table ==
    Returned =>
        /\ DOMAIN word_vectors \ {SpaceKey} = Tokens(TokenLines(Len(lw_file)))
        /\ \A tok \in Tokens(TokenLines(Len(lw_file))) :
              word_vectors[tok] = NumbersFrom(LastWith(TokenLines(Len(lw_file)), tok), 2)

\* a table returned under a filter, from a file that holds a retained line, a
\* line with fewer than 5 fields and a line the filter excludes
C1_Witness ==
    /\ Returned
    /\ lw_vocab # None
    /\ DOMAIN word_vectors \ {SpaceKey} # {}
    /\ \E i \in 1..Len(lw_file) : Len(FieldsOf(i)) < 5
    /\ \E i \in LongLines(Len(lw_file)) : lw_file[i][1] # " " /\ ~Allowed(FirstOf(i))

\* C2 as stated: every line that begins with a space character is retained
\* as the vector of " ", whatever the filter.
C2_Original ==
    Returned =>
        \A i \in 1..Len(lw_file) :
            lw_file[i][1] = " " => SpaceKey \in DOMAIN word_vectors

\* C2 amended: a line that begins with a space character and has at least 5
\* fields is retained under " " whatever the filter: the returned table maps
\* " " to all the fields, as numbers, of the last such line, and has no " "
\* entry when the file has no such line (a line with fewer than 5 fields is
\* skipped even when it begins with a space).
C2_SpaceLine ==
    Returned =>
        IF SpaceLines(Len(lw_file)) = {}
        THEN SpaceKey \notin DOMAIN word_vectors
        ELSE /\ SpaceKey \in DOMAIN word_vectors
             /\ word_vectors[SpaceKey] = NumbersFrom(MaxOf(SpaceLines(Len(lw_file))), 1)

\* an empty filter excludes the token lines of the file and the " " entry is
\* the only one returned
C2_Witness ==
    /\ Returned
    /\ lw_vocab = Some({})
    /\ SpaceLines(Len(lw_file)) # {}
    /\ \E i \in LongLines(Len(lw_file)) : lw_file[i][1] # " "
    /\ DOMAIN word_vectors = {SpaceKey}

\* number of components stored for an accepted line
Components(i) == IF lw_file[i][1] = " " THEN Len(FieldsOf(i)) ELSE Len(FieldsOf(i)) - 1

\* C3 as stated: the returned dimension is the number of components of the
\* first line whose entry is retained in the table.
C3_Original ==
    Returned =>
        LET acc == SpaceLines(Len(lw_file)) \cup TokenLines(Len(lw_file))
        IN  acc # {} => size = Some(Components(MinOf(acc)))

\* C3 amended: at every point of the loop and at the return, the dimension is
\* the number of vector components of the first accepted line read so far
\* that does not begin with a space character, and None when there is none (a
\* retained " " line never sets it); no later accepted line changes it or is
\* checked against it: each retained token keeps the number of components of
\* its own line.
C3_Size ==
    /\ lw_pc \in {"loop", "done"} =>
          LET read == TokenLines(lw_pos - 1)
          IN  size = IF read = {} THEN None ELSE Some(Len(FieldsOf(MinOf(read))) - 1)
    /\ Returned =>
          \A tok \in Tokens(TokenLines(Len(lw_file))) :
              /\ tok \in DOMAIN word_vectors
              /\ Len(word_vectors[tok]) =
                    Len(FieldsOf(LastWith(TokenLines(Len(lw_file)), tok))) - 1

\* two accepted lines with different numbers of components, both retained,
\* and the dimension is that of the first
C3_Witness ==
    /\ Returned
    /\ \E i, j \in TokenLines(Len(lw_file)) :
          /\ i < j
          /\ i = MinOf(TokenLines(Len(lw_file)))
          /\ FirstOf(i) # FirstOf(j)
          /\ Len(FieldsOf(i)) # Len(FieldsOf(j))
          /\ size = Some(Len(word_vectors[FirstOf(i)]))
          /\ size # Some(Len(word_vectors[FirstOf(j)]))

----------------------------------------------------------------------------
(* get_embedding_matrix *)

Zeros(n) == [i \in 1..n |-> 0]

\* len(vocab): the number of distinct tokens of the Vocabulary
VocabLen(v) == Cardinality(DOMAIN v)

\* len(next(iter(embeddings.values()))): None stands for the StopIteration an
\* empty dict raises.  The tables of the model hold vectors of one length, so
\* that every entry gives the same length as the first.
EmbSize_ZeroWhenEmpty(emb) ==
    IF DOMAIN emb = {} THEN Some(0) ELSE Some(Len(emb[CHOOSE k \in DOMAIN emb : TRUE]))
EmbSize(emb) ==
    IF DOMAIN emb = {} THEN None ELSE Some(Len(emb[CHOOSE k \in DOMAIN emb : TRUE]))

\* if embedding_size: rows = embedding_size, else rows = len(vocab)
Rows_IsNotNone(v, embedding_size) ==
    IF embedding_size # None THEN embedding_size[1] ELSE VocabLen(v)
Rows(v, embedding_size) ==
    IF embedding_size # None /\ embedding_size[1] # 0
    THEN embedding_size[1]
    ELSE VocabLen(v)

\* the vec of one vocabulary word, in either mode
Lookup_LowerFirst(emb, word, lowercase_only) ==
    IF DictGet(emb, Lower(word)) # None
    THEN DictGet(emb, Lower(word))
    ELSE IF lowercase_only THEN None ELSE DictGet(emb, word)
Lookup_FlagIgnored(emb, word, lowercase_only) ==
    IF DictGet(emb, word) # None THEN DictGet(emb, word) ELSE DictGet(emb, Lower(word))
Lookup_KeysLowered(emb, word, lowercase_only) ==
    IF \E k \in DOMAIN emb : Lower(k) = Lower(word)
    THEN Some(emb[CHOOSE k \in DOMAIN emb : Lower(k) = Lower(word)])
    ELSE None
Lookup(emb, word, lowercase_only) ==
    IF lowercase_only
    THEN DictGet(emb, Lower(word))
    ELSE IF DictGet(emb, word) # None
         THEN DictGet(emb, word)
         ELSE DictGet(emb, Lower(word))

\* for word, wid in vocab.vocab.items(): ... mat[wid] = vec.  The ids of a
\* Vocabulary are distinct and not negative, so the order of the items does
\* not show in the outcome; an id that is no row of mat raises IndexError.
RECURSIVE FillRows(_, _, _, _, _)
FillRows(out, emb, v, words, lowercase_only) ==
    IF words = {} \/ out.status # "ok"
    THEN out
    ELSE LET word == CHOOSE w \in words : TRUE
             wid == v[word]
             vec == Lookup(emb, word, lowercase_only)
             next == IF vec = None
                     THEN out
                     ELSE IF wid \in DOMAIN out.mat
                          THEN [out EXCEPT !.mat[wid] = vec[1]]
                          ELSE [status |-> "IndexError", mat |-> << >>]
         IN  FillRows(next, emb, v, words \ {word}, lowercase_only)

get_embedding_matrix(emb, v, embedding_size, lowercase_only) ==
    IF EmbSize(emb) = None
    THEN [status |-> "StopIteration", mat |-> << >>]
    ELSE LET emb_size == EmbSize(emb)[1]
             mat == [r \in 0..(Rows(v, embedding_size) - 1) |-> Zeros(emb_size)]
         IN  FillRows([status |-> "ok", mat |-> mat], emb, v, DOMAIN v, lowercase_only)

GetEmbeddingMatrix ==
    /\ gm_pc = "call"
    /\ gm_out' = get_embedding_matrix(gm_embeddings, gm_vocab, gm_size, gm_lower)
    /\ gm_pc' = "done"
    /\ UNCHANGED <<gm_embeddings, gm_vocab, gm_size, gm_lower>>

----------------------------------------------------------------------------
(* Inputs of get_embedding_matrix *)

MaxId == 2
MaxRows == 3

cat == << "c", "a", "t" >>
dog == << "d", "o", "g" >>
DOG == << "D", "O", "G" >>
GmTokens == { cat, dog, DOG }

\* a Vocabulary: distinct tokens with distinct ids that are not negative
Vocabularies ==
    UNION { { f \in [W -> 0..MaxId] : \A x, y \in W : x # y => f[x] # f[y] }
            : W \in SUBSET GmTokens }

\* an embedding table: all its vectors have one length
VecSets == { { << 1, 1 >>, << 2, 2 >> }, { << 3 >> } }
Tables == UNION { UNION { [K -> V] : K \in SUBSET GmTokens } : V \in VecSets }

InitMatrix ==
    /\ gm_embeddings \in Tables
    /\ gm_vocab \in Vocabularies
    /\ gm_size \in {None} \cup { Some(n) : n \in 0..MaxRows }
    /\ gm_lower \in BOOLEAN
    /\ gm_out = [status |-> "none", mat |-> << >>]
    /\ gm_pc = "call"
    /\ LwIdle
    /\ FeIdle

NextMatrix == GetEmbeddingMatrix /\ UNCHANGED <<lw_vars, fe_vars>>

SpecMatrix == InitMatrix /\ [][NextMatrix]_vars

----------------------------------------------------------------------------
(* Properties of get_embedding_matrix, stated on the arguments *)

Built == gm_pc = "done"
Dim == Len(gm_embeddings[CHOOSE k \in DOMAIN gm_embeddings : TRUE])
HasKey(k) == k \in DOMAIN gm_embeddings
IsRow(r) == gm_out.status = "ok" /\ r \in DOMAIN gm_out.mat

ExampleVocab == [w \in {cat, dog} |-> IF w = cat THEN 1 ELSE 2]
ExampleTable == [k \in {cat, DOG} |-> IF k = cat THEN << 1, 1 >> ELSE << 2, 2 >>]
Example ==
    /\ Built
    /\ gm_vocab = ExampleVocab
    /\ gm_embeddings = ExampleTable
    /\ ~gm_lower

\* C5 as stated: vocabulary {"cat":1, "dog":2} and table {"cat":[1,1],
\* "DOG":[2,2]} with lowercase_only false give row 1 = [1,1] and row 2 = [2,2].
C5_Original ==
    Example =>
        /\ IsRow(1) /\ gm_out.mat[1] = << 1, 1 >>
        /\ IsRow(2) /\ gm_out.mat[2] = << 2, 2 >>

\* C5 amended: with that vocabulary and table and lowercase_only false, "dog"
\* is not matched to the key "DOG" (the fallback lowercases the vocabulary
\* token, never the table's keys).  Without a row count (or with 0 or 2) the
\* matrix has rows 0 and 1 only, row 1 = [1,1]; with a row count of 3 row 1
\* = [1,1] and row 2 = [0,0]; with a row count of 1 the call raises an
\* IndexError on row 1.
C5_Example ==
    Example =>
        IF gm_size = Some(1)
        THEN gm_out.status = "IndexError"
        ELSE /\ gm_out.status = "ok"
             /\ gm_out.mat[0] = << 0, 0 >>
             /\ gm_out.mat[1] = << 1, 1 >>
             /\ IF gm_size \in {None, Some(0), Some(2)}
                THEN DOMAIN gm_out.mat = {0, 1}
                ELSE /\ DOMAIN gm_out.mat = 0..(gm_size[1] - 1)
                     /\ \A r \in 2..(gm_size[1] - 1) : gm_out.mat[r] = << 0, 0 >>

\* the example with a row count of 3: row 2 exists and is zero
C5_Witness ==
    /\ Example
    /\ gm_size = Some(3)
    /\ IsRow(2)
    /\ gm_out.mat[2] = << 0, 0 >>

Matched(w) == IF gm_lower THEN HasKey(Lower(w)) ELSE HasKey(w) \/ HasKey(Lower(w))

HasShape(rows) ==
    /\ gm_out.status = "ok"
    /\ DOMAIN gm_out.mat = 0..(rows - 1)
    /\ \A r \in DOMAIN gm_out.mat : Len(gm_out.mat[r]) = Dim

\* C7 as stated: for every non-empty table, vocabulary and row count, the
\* call returns a matrix of (row count if given, else vocabulary size) rows
\* and (dimension of the table) columns.
C7_Original ==
    (Built /\ DOMAIN gm_embeddings # {}) =>
        HasShape(IF gm_size # None THEN gm_size[1] ELSE Cardinality(DOMAIN gm_vocab))

\* C7 amended: for every non-empty table, vocabulary and row count, with rows
\* = the row count if one is given and is not 0, else the vocabulary size:
\* the call raises an IndexError when some vocabulary token that has a vector
\* has an id that is not below rows, and otherwise returns a matrix of rows
\* rows and (dimension of the table) columns.
C7_Shape ==
    (Built /\ DOMAIN gm_embeddings # {}) =>
        LET rows == IF gm_size \notin {None, Some(0)}
                    THEN gm_size[1]
                    ELSE Cardinality(DOMAIN gm_vocab)
        IN  IF \E w \in DOMAIN gm_vocab : Matched(w) /\ gm_vocab[w] >= rows
            THEN gm_out.status = "IndexError"
            ELSE HasShape(rows)

\* a matrix returned with an explicit row count that differs from the size of
\* the vocabulary, and with an unmatched token whose id is no row
C7_Witness ==
    /\ Built /\ gm_out.status = "ok"
    /\ gm_size # None /\ gm_size[1] > Cardinality(DOMAIN gm_vocab)
    /\ DOMAIN gm_out.mat = 0..(gm_size[1] - 1)
    /\ \E w \in DOMAIN gm_vocab : Matched(w) /\ gm_out.mat[gm_vocab[w]] # Zeros(Dim)

\* C8: with an empty table the call fails before any matrix exists, for every
\* vocabulary, row count and lowercase_only flag.
C8_EmptyTable ==
    (Built /\ DOMAIN gm_embeddings = {}) =>
        gm_out.status = "StopIteration" /\ gm_out.mat = << >>

\* a call with an empty table, a vocabulary and a row count has failed
C8_Witness ==
    /\ Built
    /\ DOMAIN gm_embeddings = {}
    /\ DOMAIN gm_vocab # {}
    /\ gm_size = Some(2)
    /\ gm_out.status = "StopIteration"

----------------------------------------------------------------------------
(* fill_embedding_mat *)

NoneStr == << "N", "o", "n", "e" >>

\* str(x) of an optional token: str(None) is "None", str of a str is itself
Str(x) == IF x = None THEN NoneStr ELSE x[1]

\* emb_lex.get(str(src_lex.get(w)).lower())
WordEmb_NoLower(src_lex, emb_lex, w) == DictGet(emb_lex, Str(DictGet(src_lex, w)))
WordEmb_MissingSkipped(src_lex, emb_lex, w) ==
    IF DictGet(src_lex, w) = None
    THEN None
    ELSE DictGet(emb_lex, Lower(Str(DictGet(src_lex, w))))
WordEmb(src_lex, emb_lex, w) == DictGet(emb_lex, Lower(Str(DictGet(src_lex, w))))

\* the body of the two loops for the cell (i, j): if w > 0 ... emb_mat[i][j] = w_emb
FillCell(emb_mat, src_mat, src_lex, emb_lex, i, j) ==
    LET w == src_mat[i][j]
        w_emb == WordEmb(src_lex, emb_lex, w)
    IN  IF w > 0 /\ w_emb # None
        THEN [emb_mat EXCEPT ![i][j] = w_emb[1]]
        ELSE emb_mat

\* for i, sen in enumerate(src_mat): for j, w in enumerate(sen): the cells in
\* row-major order, k counting them from 0
RECURSIVE FillFrom(_, _, _, _, _)
FillFrom(emb_mat, src_mat, src_lex, emb_lex, k) ==
    LET rows == Len(src_mat)
        cols == Len(src_mat[1])
    IN  IF k >= rows * cols
        THEN emb_mat
        ELSE FillFrom(FillCell(emb_mat, src_mat, src_lex, emb_lex,
                               (k \div cols) + 1, (k % cols) + 1),
                      src_mat, src_lex, emb_lex, k + 1)

\* np.zeros((src_mat.shape[0], src_mat.shape[1], emb_size)), then the loops
fill_embedding_mat(src_mat, src_lex, emb_lex, emb_size) ==
    LET zeros == [i \in 1..Len(src_mat) |-> [j \in 1..Len(src_mat[1]) |-> Zeros(emb_size)]]
    IN  FillFrom(zeros, src_mat, src_lex, emb_lex, 0)

FillEmbeddingMat ==
    /\ fe_pc = "call"
    /\ fe_out' = fill_embedding_mat(fe_src_mat, fe_src_lex, fe_emb_lex, fe_emb_size)
    /\ fe_pc' = "done"
    /\ UNCHANGED <<fe_src_mat, fe_src_lex, fe_emb_lex, fe_emb_size>>

----------------------------------------------------------------------------
(* Inputs of fill_embedding_mat *)

MaxSen == 1
MaxPos == 2

Cat == << "C", "a", "t" >>
none == << "n", "o", "n", "e" >>

FeIds == { -1, 0, 1, 2 }

\* the source lexicons: id 1 is "Cat" and id 2 is "dog", when they have them
FeSrcToken(w) == IF w = 1 THEN Cat ELSE dog
FeSrcLexicons == { [w \in K |-> FeSrcToken(w)] : K \in SUBSET {1, 2} }

\* the embedding lexicons: every vector has emb_size components
FeComponent(k) == IF k = cat THEN 1 ELSE IF k = Cat THEN 2 ELSE 3
FeEmbLexicons(n) ==
    { [k \in K |-> [i \in 1..n |-> FeComponent(k)]] : K \in SUBSET {cat, Cat, none} }

InitFill ==
    /\ \E s \in 1..MaxSen, p \in 1..MaxPos : fe_src_mat \in [1..s -> [1..p -> FeIds]]
    /\ fe_src_lex \in FeSrcLexicons
    /\ fe_emb_size \in {1, 2}
    /\ fe_emb_lex \in FeEmbLexicons(fe_emb_size)
    /\ fe_out = << >>
    /\ fe_pc = "call"
    /\ LwIdle
    /\ GmIdle

NextFill == FillEmbeddingMat /\ UNCHANGED <<lw_vars, gm_vars>>

SpecFill == InitFill /\ [][NextFill]_vars

----------------------------------------------------------------------------
(* Properties of fill_embedding_mat, stated on the arguments *)

Filled == fe_pc = "done"
FeCells == { c \in (1..Len(fe_src_mat)) \X (1..Len(fe_src_mat[1])) : TRUE }
IdAt(c) == fe_src_mat[c[1]][c[2]]
OutAt(c) == fe_out[c[1]][c[2]]

\* C9: the tensor has the shape (sentences, positions, emb_size); a cell whose
\* id is <= 0 is all zeros; a cell whose positive id the source lexicon
\* resolves holds the embedding lexicon's vector for the lowercased token, and
\* zeros when the embedding lexicon lacks that lowercased token.
C9_Fill ==
    Filled =>
        /\ Len(fe_out) = Len(fe_src_mat)
        /\ \A i \in 1..Len(fe_out) : Len(fe_out[i]) = Len(fe_src_mat[1])
        /\ \A c \in FeCells :
              /\ Len(OutAt(c)) = fe_emb_size
              /\ IdAt(c) <= 0 => OutAt(c) = Zeros(fe_emb_size)
              /\ (IdAt(c) > 0 /\ IdAt(c) \in DOMAIN fe_src_lex) =>
                    OutAt(c) =
                        IF Lower(fe_src_lex[IdAt(c)]) \in DOMAIN fe_emb_lex
                        THEN fe_emb_lex[Lower(fe_src_lex[IdAt(c)])]
                        ELSE Zeros(fe_emb_size)

\* a row that holds the id 1 ("Cat", found as "cat") beside the id 2 ("dog",
\* absent), in a lexicon that also has the key "Cat"
C9_Witness ==
    /\ Filled
    /\ fe_src_mat = << << 1, 2 >> >>
    /\ DOMAIN fe_src_lex = {1, 2}
    /\ {cat, Cat} \subseteq DOMAIN fe_emb_lex
    /\ fe_out[1][1] = fe_emb_lex[cat]
    /\ fe_out[1][2] = Zeros(fe_emb_size)

\* C10: a cell whose positive id the source lexicon lacks holds the embedding
\* lexicon's vector for "none" when it has that key, and zeros only when it
\* does not.
C10_MissingIsNone ==
    Filled =>
        \A c \in FeCells :
            (IdAt(c) > 0 /\ IdAt(c) \notin DOMAIN fe_src_lex) =>
                OutAt(c) = IF none \in DOMAIN fe_emb_lex
                           THEN fe_emb_lex[none]
                           ELSE Zeros(fe_emb_size)

\* the id 2 has no source token and its cell holds the vector of "none"
C10_Witness ==
    /\ Filled
    /\ 2 \notin DOMAIN fe_src_lex
    /\ none \in DOMAIN fe_emb_lex
    /\ \E c \in FeCells : IdAt(c) = 2 /\ OutAt(c) = fe_emb_lex[none] /\ OutAt(c) # Zeros(fe_emb_size)

====
